---- MODULE Spec2Model ----
(***************************************************************************)
(* The passenger-satisfaction dashboard of src/app.py as a state machine.  *)
(*                                                                         *)
(* The script main() is re-run from the top on every user interaction; the *)
(* only state that survives a run is st.session_state (the entries         *)
(* raw_data, clean_data and clusters) and the values of the widgets.       *)
(* One action per interaction (upload, remove the file, pick a view, move  *)
(* the slider, press the clustering button), each of which runs Main.      *)
(*                                                                         *)
(* A second specification, PureSpec, applies the data functions            *)
(* (clean_data, generate_report and the report branch of main) to every    *)
(* table of a larger bounded universe.                                     *)
(***************************************************************************)
EXTENDS Integers, Sequences, FiniteSets, TLC

VARIABLES
    uploaded_file,    \* the file_uploader widget: NoFile, BadFile or a csv content
    analysis_option,  \* the sidebar radio
    n_clusters,       \* the slider of the clustering view
    session,          \* st.session_state: a function from its keys to their values
    out,              \* what the last run of main() executed and displayed
    calc              \* PureSpec only: the function applications on one input

vars == <<uploaded_file, analysis_option, n_clusters, session, out, calc>>

---------------------------------------------------------------------------
(* Bounds of the model.                                                    *)

\* The most data lines of a csv uploaded in a session (Spec).
MaxRows == 2
\* The most data lines of a csv the data functions are applied to (PureSpec).
MaxRowsPure == 2
\* The slider positions tried are SliderMin..MaxKTried.
MaxKTried == 3

---------------------------------------------------------------------------
(* Cell values.  A cell is an integer; two values outside the data stand   *)
(* for a missing value and for a cell that holds text.                     *)

\* pandas' NaN: an empty csv field (what dropna removes)
NaN == -1
\* a csv field that is no number; its column gets dtype object
Text == -2

\* The closed score range of clean_data.
ScoreMin == 1
ScoreMax == 5

\* st.slider("...", 2, 10, 3)
SliderMin == 2
SliderMax == 10
SliderDefault == 3

SCORE == "satisfaction_score"
FLIGHT == "flight_id"
\* a numeric column that is neither of the two
AGE == "age"

\* The value python's None.
None == [kind |-> "None"]

IsNone(v) == v.kind = "None"

---------------------------------------------------------------------------
(* Sequences.                                                              *)

SeqUpTo(S, n) == UNION {[1..m -> S] : m \in 0..n}

RECURSIVE SelectRows(_, _)
\* The rows of rows whose index is in keep, in their order.
SelectRows(rows, keep) ==
    IF rows = <<>> THEN <<>>
    ELSE LET n == Len(rows)
             front == SelectRows(SubSeq(rows, 1, n - 1), keep)
         IN  IF n \in keep THEN Append(front, rows[n]) ELSE front

RECURSIVE SumSeq(_)
SumSeq(s) == IF s = <<>> THEN 0 ELSE s[Len(s)] + SumSeq(SubSeq(s, 1, Len(s) - 1))

---------------------------------------------------------------------------
(* Uploaded content and pd.read_csv.                                       *)

NoFile == [kind |-> "none"]
\* bytes pd.read_csv cannot parse (or an empty file)
BadFile == [kind |-> "bad"]

\* The value pd.read_csv gives one field: NaN for an empty field, the number
\* for a numeral, and text otherwise.
ParseField(tok) ==
    CASE tok = "" -> NaN
      [] tok = "0" -> 0
      [] tok = "1" -> 1
      [] tok = "2" -> 2
      [] tok = "3" -> 3
      [] tok = "5" -> 5
      [] tok = "6" -> 6
      [] tok = "7" -> 7
      [] OTHER -> Text

\* The DataFrame pd.read_csv builds from a header line and data lines: one
\* row per line; a column with a non-numeric field, and every column of a
\* file without data lines, has dtype object.
ReadCsv(content) ==
    LET h == content.header
        rows == [i \in 1..Len(content.lines) |->
                    [c \in {h[j] : j \in 1..Len(h)} |->
                        ParseField(content.lines[i][CHOOSE j \in 1..Len(h) : h[j] = c])]]
    IN  [kind |-> "table",
         columns |-> h,
         rows |-> rows,
         object |-> {c \in {h[j] : j \in 1..Len(h)} :
                        \/ rows = <<>>
                        \/ \E i \in 1..Len(rows) : rows[i][c] = Text}]

\* load_data_from_csv: the table, or None when read_csv raises.
load_data_from_csv(file) ==
    IF file.kind = "csv" THEN ReadCsv(file) ELSE None

Headers == {<<SCORE, FLIGHT>>, <<SCORE>>, <<FLIGHT>>, <<AGE>>}

\* The csv contents with header h and at most n data lines drawn from Line.
CsvFiles(h, Line, n) ==
    {[kind |-> "csv", header |-> h, lines |-> ls] : ls \in SeqUpTo(Line, n)}

\* The data lines under header h whose score field is drawn from scoreToks
\* and whose other fields are drawn from flightToks.
LinesOf(h, scoreToks, flightToks) ==
    {l \in [1..Len(h) -> scoreToks \cup flightToks] :
        \A j \in 1..Len(h) :
            l[j] \in (IF h[j] = SCORE THEN scoreToks ELSE flightToks)}

\* The data lines of the files uploaded in a session, one per way a line is
\* treated: kept, score out of range, a missing value in another column,
\* a score that is text.
SessionLines == {<<"3", "1">>, <<"7", "1">>, <<"3", "">>, <<"abc", "1">>}

\* The files uploaded in a session: at most MaxRows lines; with both
\* columns, without the flight column, without the score column, without
\* both.
Uploads ==
    CsvFiles(<<SCORE, FLIGHT>>, SessionLines, MaxRows)
        \cup CsvFiles(<<SCORE>>, {<<"3">>}, MaxRows)
        \cup CsvFiles(<<FLIGHT>>, {<<"1">>}, MaxRows)
        \cup CsvFiles(<<AGE>>, {<<"1">>}, MaxRows)

\* What the user may put into the uploader.
UploadChoices == Uploads \cup {BadFile}

\* The files the data functions are applied to in PureSpec: every file of
\* at most MaxRowsPure lines over these fields, under each header.
PureInputs ==
    UNION {CsvFiles(h, LinesOf(h, {"", "0", "1", "5", "6"}, {"", "1", "2"}), MaxRowsPure) :
              h \in Headers}

---------------------------------------------------------------------------
(* DataFrame operations.                                                   *)

Cols(t) == {t.columns[j] : j \in 1..Len(t.columns)}

\* len(df)
NRows(t) == Len(t.rows)

\* DropNa with the check limited to the score column, as
\* dropna(subset=['satisfaction_score']) would do.
DropNaScoreOnly(t) ==
    [t EXCEPT !.rows =
        SelectRows(t.rows, {i \in 1..Len(t.rows) :
                               SCORE \in Cols(t) => t.rows[i][SCORE] # NaN})]

\* df.dropna(): the rows without a missing value in any column.
DropNa(t) ==
    [t EXCEPT !.rows =
        SelectRows(t.rows, {i \in 1..Len(t.rows) : \A c \in Cols(t) : t.rows[i][c] # NaN})]

\* df.select_dtypes(include=['number']).columns.tolist()
NumericCols(t) ==
    SelectSeq(t.columns, LAMBDA c : c \notin t.object)

\* What a call that raises an exception yields.
Raised == [kind |-> "raised"]

IsTable(v) == v.kind = "table"

---------------------------------------------------------------------------
(* clean_data.                                                             *)

\* InRange without the upper limit.
InRangeNoUpper(v) == v >= ScoreMin

\* (score >= 1) & (score <= 5)
InRange(v) == v >= ScoreMin /\ v <= ScoreMax

\* data_clean[(data_clean[score] >= 1) & (data_clean[score] <= 5)]
FilterScore(t) ==
    [t EXCEPT !.rows =
        SelectRows(t.rows, {i \in 1..Len(t.rows) : InRange(t.rows[i][SCORE])})]

\* clean_data with the range mask computed on data instead of data_clean
\* and applied to data_clean by position.
clean_data_mask_of_data(data) ==
    IF IsNone(data) THEN None
    ELSE LET data_clean == DropNa(data)
         IN  IF SCORE \notin Cols(data_clean) THEN None
             ELSE IF SCORE \in data_clean.object /\ data_clean.rows # <<>> THEN Raised
             ELSE [data_clean EXCEPT !.rows =
                      SelectRows(data_clean.rows,
                                 {i \in 1..Len(data_clean.rows) : InRange(data.rows[i][SCORE])})]

\* clean_data: None for None and for a table without the score column; the
\* comparison of a column of strings with 1 raises TypeError as soon as the
\* column has an element; otherwise the complete rows with a score in range.
clean_data(data) ==
    IF IsNone(data) THEN None
    ELSE LET data_clean == DropNa(data)
         IN  IF SCORE \notin Cols(data_clean) THEN None
             ELSE IF SCORE \in data_clean.object /\ data_clean.rows # <<>> THEN Raised
             ELSE FilterScore(data_clean)

---------------------------------------------------------------------------
(* generate_report.                                                        *)

\* The rows of t whose flight_id is key and whose score is not missing.
GroupScores(t, key) ==
    LET idx == {i \in 1..Len(t.rows) : t.rows[i][FLIGHT] = key /\ t.rows[i][SCORE] # NaN}
        sel == SelectRows(t.rows, idx)
    IN  [i \in 1..Len(sel) |-> sel[i][SCORE]]

\* One row of groupby('flight_id')['satisfaction_score'].agg(['mean','count','std']).
\* mean is the fraction num/den (den = 0: NaN, no value in the group); std is
\* given by the sample variance num/den (den = 0: NaN, fewer than two values).
GroupRow(t, key) ==
    LET ys == GroupScores(t, key)
        n == Len(ys)
        sum == SumSeq(ys)
        sumsq == SumSeq([i \in 1..n |-> ys[i] * ys[i]])
    IN  [flight_id |-> key,
         mean |-> [num |-> sum, den |-> n],
         count |-> n,
         std |-> IF n < 2 THEN [num |-> 0, den |-> 0]
                 ELSE [num |-> n * sumsq - sum * sum, den |-> n * (n - 1)]]

RECURSIVE SortedKeys(_)
\* The elements of a finite set of integers in ascending order.
SortedKeys(S) ==
    IF S = {} THEN <<>>
    ELSE LET m == CHOOSE x \in S : \A y \in S : x <= y
         IN  <<m>> \o SortedKeys(S \ {m})

\* groupby('flight_id') ... agg: one row per flight_id that is not missing,
\* in ascending order of the key.
GroupBy(t) ==
    LET keys == SortedKeys({t.rows[i][FLIGHT] : i \in 1..Len(t.rows)} \ {NaN})
    IN  [g \in 1..Len(keys) |-> GroupRow(t, keys[g])]

\* generate_report(data).  None without both columns.  The aggregation of a
\* column of strings raises; whether it does for an object column without
\* rows, and whether the bar plot of a report without rows raises, depends
\* on the pandas build: emptyRaises is that outcome.
generate_report(data, emptyRaises) ==
    IF FLIGHT \notin Cols(data) \/ SCORE \notin Cols(data) THEN None
    ELSE IF SCORE \in data.object /\ data.rows # <<>> THEN Raised
    ELSE IF data.rows = <<>> /\ emptyRaises THEN Raised
    ELSE [kind |-> "report", rows |-> GroupBy(data)]

\* a.mean > b.mean; a NaN mean is greater than nothing and sorts last.
MeanGreater(a, b) ==
    /\ a.den # 0
    /\ \/ b.den = 0
       \/ a.num * b.den > b.num * a.den

RECURSIVE SortByMeanDesc(_)
\* report.sort_values(mean, ascending=False): descending mean, rows with
\* equal means in their order in the report.
SortByMeanDesc(rows) ==
    IF rows = <<>> THEN <<>>
    ELSE LET n == Len(rows)
             front == SortByMeanDesc(SubSeq(rows, 1, n - 1))
             last == rows[n]
             k == Cardinality({i \in 1..Len(front) : ~MeanGreater(last.mean, front[i].mean)})
         IN  SubSeq(front, 1, k) \o <<last>> \o SubSeq(front, k + 1, Len(front))

\* The table st.dataframe shows in the report view.
ReportShown(report) == SortByMeanDesc(report.rows)

\* report.to_csv(): the header line and one line per row of report, in the
\* order of report (the rendering of the numbers as text is not modelled).
ReportCsv(report) ==
    <<<<"flight_id", "mean", "count", "std">>>>
        \o [i \in 1..Len(report.rows) |->
               <<report.rows[i].flight_id, report.rows[i].mean,
                 report.rows[i].count, report.rows[i].std>>]

---------------------------------------------------------------------------
(* perform_regression_analysis and perform_clustering.                     *)

\* perform_regression_analysis(X, y) for the one column feature of t and its
\* score column: LinearRegression.fit raises ValueError on a frame without
\* rows; the coefficient is the least-squares slope num/den, and 0 for a
\* feature whose values are all equal.
perform_regression_analysis(t, feature) ==
    LET n == Len(t.rows)
        xs == [i \in 1..n |-> t.rows[i][feature]]
        ys == [i \in 1..n |-> t.rows[i][SCORE]]
        sxy == SumSeq([i \in 1..n |-> xs[i] * ys[i]])
        sxx == SumSeq([i \in 1..n |-> xs[i] * xs[i]])
        num == n * sxy - SumSeq(xs) * SumSeq(ys)
        den == n * sxx - SumSeq(xs) * SumSeq(xs)
    IN  IF n = 0 THEN Raised
        ELSE IF den = 0 THEN [kind |-> "coef", num |-> 0, den |-> 1]
        ELSE [kind |-> "coef", num |-> num, den |-> den]

\* KMeansLabels with the clusters numbered from 1.
KMeansLabelsFromOne(points, k) ==
    LET n == Len(points)
        first(i) == CHOOSE j \in 1..i : points[j] = points[i] /\
                        \A l \in 1..(j - 1) : points[l] # points[i]
        rank(i) == Cardinality({j \in 1..(first(i) - 1) :
                        \A l \in 1..(j - 1) : points[l] # points[j]})
    IN  [i \in 1..n |-> (rank(i) % k) + 1]

\* The labels KMeans.fit_predict gives the points: one label in 0..k-1 per
\* point, equal points share a label.  The seeded centroid search is not
\* modelled: the label of a point is the rank of its first occurrence among
\* the distinct points, modulo k.
KMeansLabels(points, k) ==
    LET n == Len(points)
        first(i) == CHOOSE j \in 1..i : points[j] = points[i] /\
                        \A l \in 1..(j - 1) : points[l] # points[i]
        rank(i) == Cardinality({j \in 1..(first(i) - 1) :
                        \A l \in 1..(j - 1) : points[l] # points[j]})
    IN  [i \in 1..n |-> rank(i) % k]

\* perform_clustering(data[[feature1, feature2]], n_clusters): KMeans raises
\* ValueError when there are fewer rows than clusters.
perform_clustering(t, feature1, feature2, k) ==
    LET points == [i \in 1..Len(t.rows) |-> <<t.rows[i][feature1], t.rows[i][feature2]>>]
    IN  IF Len(points) < k THEN Raised
        ELSE [kind |-> "labels", labels |-> KMeansLabels(points, k)]

---------------------------------------------------------------------------
(* st.session_state and one run of main().                                 *)

Has(s, key) == key \in DOMAIN s

\* st.session_state[key] = v
Put(s, key, v) == [x \in DOMAIN s \cup {key} |-> IF x = key THEN v ELSE s[x]]

\* The entries of the sidebar radio, in its order; the first is its default.
\* ("Обзор данных", "Очистка данных", "Регрессионный анализ", "Кластеризация",
\*  "Отчет по рейсам")
Options == <<"overview", "cleaning", "regression", "clustering", "report">>

OptionSet == {Options[i] : i \in 1..Len(Options)}

\* What a run displays and executes, before it does anything.
NoOutput ==
    [result |-> "no_data",  \* where the run ended
     error |-> FALSE,       \* st.error or st.warning was shown, or an exception escaped
     load |-> "none",       \* the upload of this run: none, ok or failed
     ran |-> {},            \* the functions of app.py the run called
     metrics |-> <<>>,      \* the three st.metric values of the cleaning view
     coef |-> <<>>,         \* the regression coefficient shown
     shown |-> <<>>,        \* the report table shown
     csv |-> <<>>,          \* the report export offered for download
     named |-> {},          \* the columns the st.error messages name as missing
     form |-> FALSE]        \* the slider and the button were rendered

\* An upload step that also discards the stored result of an earlier
\* cleaning when it stores a new raw table.
LoadStepInvalidating(s, file) ==
    IF file.kind = "none" THEN [session |-> s, out |-> NoOutput]
    ELSE LET data == load_data_from_csv(file)
             o == [NoOutput EXCEPT !.ran = {"load_data_from_csv"}]
             kept == [x \in DOMAIN s \ {"clean_data"} |-> s[x]]
         IN  IF IsNone(data)
             THEN [session |-> s, out |-> [o EXCEPT !.load = "failed", !.error = TRUE]]
             ELSE [session |-> Put(kept, "raw_data", data), out |-> [o EXCEPT !.load = "ok"]]

\* Lines 145-149: the upload stores the parsed table; a file that does not
\* parse shows an error and stores nothing.
LoadStep(s, file) ==
    IF file.kind = "none" THEN [session |-> s, out |-> NoOutput]
    ELSE LET data == load_data_from_csv(file)
             o == [NoOutput EXCEPT !.ran = {"load_data_from_csv"}]
         IN  IF IsNone(data)
             THEN [session |-> s, out |-> [o EXCEPT !.load = "failed", !.error = TRUE]]
             ELSE [session |-> Put(s, "raw_data", data), out |-> [o EXCEPT !.load = "ok"]]

\* Lines 160-165 (what the histogram and the statistics draw is not modelled).
OverviewView(s, o) ==
    [session |-> s,
     out |-> [o EXCEPT !.result = "overview",
                       !.ran = @ \cup {"show_initial_distribution"},
                       !.error = @ \/ SCORE \notin Cols(s["raw_data"]),
                       !.named = IF SCORE \notin Cols(s["raw_data"]) THEN {SCORE} ELSE {}]]

\* NotYetCleaned that ignores the stored entry.
NotYetCleanedAlways(s) == TRUE

\* Line 170: 'clean_data' not in st.session_state
NotYetCleaned(s) == ~Has(s, "clean_data")

\* Lines 167-190.
CleaningView(s, o) ==
    LET data == s["raw_data"]
        miss == NotYetCleaned(s)
        res == IF miss THEN clean_data(data) ELSE s["clean_data"]
        o1 == IF miss
              THEN [o EXCEPT !.ran = @ \cup {"clean_data"},
                             !.named = IF SCORE \notin Cols(data) THEN {SCORE} ELSE {}]
              ELSE o
        s1 == IF miss THEN Put(s, "clean_data", res) ELSE s
    IN  IF res = Raised
        THEN [session |-> s, out |-> [o1 EXCEPT !.result = "exception", !.error = TRUE]]
        ELSE IF IsNone(res)
        THEN [session |-> s1, out |-> [o1 EXCEPT !.result = "cleaning_failed", !.error = TRUE]]
        ELSE [session |-> s1,
              out |-> [o1 EXCEPT !.result = "cleaning_shown",
                                 !.ran = @ \cup {"show_cleaned_distribution"},
                                 !.metrics = <<NRows(data), NRows(res),
                                               NRows(data) - NRows(res)>>]]

\* A regression view without the guards on the cleaned table.
RegressionViewUnguarded(s, o) ==
    [session |-> s,
     out |-> [o EXCEPT !.result = "regression_shown",
                       !.ran = @ \cup {"perform_regression_analysis"}]]

\* Lines 192-233.
RegressionView(s, o) ==
    IF ~Has(s, "clean_data")
    THEN [session |-> s, out |-> [o EXCEPT !.result = "not_cleaned_warning", !.error = TRUE]]
    ELSE LET clean_data_df == s["clean_data"]
         IN  IF IsNone(clean_data_df)
             THEN [session |-> s, out |-> [o EXCEPT !.result = "not_cleaned_error", !.error = TRUE]]
             ELSE IF SCORE \notin Cols(clean_data_df)
             THEN [session |-> s,
                   out |-> [o EXCEPT !.result = "no_score_error", !.error = TRUE,
                                     !.named = {SCORE}]]
             ELSE LET numeric_cols == SelectSeq(NumericCols(clean_data_df), LAMBDA c : c # SCORE)
                  IN  IF numeric_cols = <<>>
                      THEN [session |-> s,
                            out |-> [o EXCEPT !.result = "no_feature_error", !.error = TRUE]]
                      ELSE LET coef == perform_regression_analysis(clean_data_df, numeric_cols[1])
                               o1 == [o EXCEPT !.ran = @ \cup {"perform_regression_analysis"}]
                           IN  IF coef = Raised
                               THEN [session |-> s,
                                     out |-> [o1 EXCEPT !.result = "exception", !.error = TRUE]]
                               ELSE [session |-> s,
                                     out |-> [o1 EXCEPT !.result = "regression_shown",
                                                        !.coef = <<coef>>]]

\* A clustering view that clears the clusters entry whenever it is shown.
ClusteringViewClearing(s, o, k, button) ==
    [session |-> Put(s, "clusters", None),
     out |-> [o EXCEPT !.result = "clustering_form", !.form = TRUE]]

\* Lines 235-277.
ClusteringView(s, o, k, button) ==
    IF ~Has(s, "clean_data")
    THEN [session |-> s, out |-> [o EXCEPT !.result = "not_cleaned_warning", !.error = TRUE]]
    ELSE LET clean_data_df == s["clean_data"]
         IN  IF IsNone(clean_data_df)
             THEN [session |-> s, out |-> [o EXCEPT !.result = "not_cleaned_error", !.error = TRUE]]
             ELSE LET numeric_cols == NumericCols(clean_data_df)
                  IN  IF Len(numeric_cols) < 2
                      THEN [session |-> s,
                            out |-> [o EXCEPT !.result = "few_features_error", !.error = TRUE]]
                      ELSE IF ~button
                      THEN [session |-> s,
                            out |-> [o EXCEPT !.result = "clustering_form", !.form = TRUE]]
                      ELSE LET clusters == perform_clustering(clean_data_df, numeric_cols[1],
                                                              numeric_cols[2], k)
                               o1 == [o EXCEPT !.ran = @ \cup {"perform_clustering"},
                                               !.form = TRUE]
                           IN  IF clusters = Raised
                               THEN [session |-> s,
                                     out |-> [o1 EXCEPT !.result = "exception", !.error = TRUE]]
                               ELSE [session |-> Put(s, "clusters", clusters),
                                     out |-> [o1 EXCEPT !.result = "clustering_done"]]

\* Lines 279-308.
ReportView(s, o, emptyRaises) ==
    IF ~Has(s, "clean_data")
    THEN [session |-> s, out |-> [o EXCEPT !.result = "not_cleaned_warning", !.error = TRUE]]
    ELSE LET clean_data_df == s["clean_data"]
         IN  IF IsNone(clean_data_df)
             THEN [session |-> s, out |-> [o EXCEPT !.result = "not_cleaned_error", !.error = TRUE]]
             ELSE LET report == generate_report(clean_data_df, emptyRaises)
                      o1 == [o EXCEPT !.ran = @ \cup {"generate_report"}]
                  IN  IF report = Raised
                      THEN [session |-> s,
                            out |-> [o1 EXCEPT !.result = "exception", !.error = TRUE]]
                      ELSE IF IsNone(report)
                      THEN [session |-> s,
                            out |-> [o1 EXCEPT !.result = "report_error", !.error = TRUE,
                                               !.named = {FLIGHT, SCORE}]]
                      ELSE [session |-> s,
                            out |-> [o1 EXCEPT !.result = "report_shown",
                                               !.shown = ReportShown(report),
                                               !.csv = ReportCsv(report)]]

\* main() after the upload step l: without a raw table nothing more is
\* shown; otherwise the view the radio selects.
Main(l, option, k, button, emptyRaises) ==
    IF ~Has(l.session, "raw_data") THEN l
    ELSE CASE option = "overview" -> OverviewView(l.session, l.out)
           [] option = "cleaning" -> CleaningView(l.session, l.out)
           [] option = "regression" -> RegressionView(l.session, l.out)
           [] option = "clustering" -> ClusteringView(l.session, l.out, k, button)
           [] option = "report" -> ReportView(l.session, l.out, emptyRaises)

---------------------------------------------------------------------------
(* The session: one action per interaction, each a run of main().          *)

\* The run of main() that the interaction event starts, with the widget
\* values it sees.  A widget that the run does not render loses its value:
\* the slider is back at its default the next time it is shown.
\* Two history values are recorded with the output: reupload, the event is
\* an upload of the content that raw_data was read from; source_rows, the
\* number of rows of the table the stored clean_data entry was computed from.
Run(event, file, option, k, button, emptyRaises) ==
    \E l \in {LoadStep(session, file)} : \E r \in {Main(l, option, k, button, emptyRaises)} :
        /\ uploaded_file' = file
        /\ analysis_option' = option
        /\ n_clusters' = IF r.out.form THEN k ELSE SliderDefault
        /\ session' = r.session
        /\ out' = r.out @@
                [reupload |-> /\ event = "upload"
                              /\ r.out.load = "ok"
                              /\ Has(session, "raw_data")
                              /\ r.session["raw_data"] = session["raw_data"],
                 source_rows |-> IF Has(r.session, "clean_data") /\ ~Has(session, "clean_data")
                                 THEN <<NRows(r.session["raw_data"])>>
                                 ELSE out.source_rows]
        /\ UNCHANGED calc

\* The outcomes of the pandas build that a run with this option can meet.
EmptyRaises(option) == IF option = "report" THEN BOOLEAN ELSE {FALSE}

\* The user uploads a file (the same content again, too).
Upload ==
    \E f \in UploadChoices, e \in EmptyRaises(analysis_option) :
        Run("upload", f, analysis_option, n_clusters, FALSE, e)

\* The user removes the file from the uploader.
RemoveFile ==
    /\ uploaded_file # NoFile
    /\ \E e \in EmptyRaises(analysis_option) :
        Run("remove", NoFile, analysis_option, n_clusters, FALSE, e)

\* The user picks another entry of the radio, which is shown once there is
\* a raw table.
SelectOption ==
    /\ Has(session, "raw_data")
    /\ \E o \in OptionSet \ {analysis_option} : \E e \in EmptyRaises(o) :
        Run("select", uploaded_file, o, n_clusters, FALSE, e)

\* The user moves the slider of the clustering view.
MoveSlider ==
    /\ out.form
    /\ \E k \in (SliderMin..MaxKTried) \ {n_clusters} :
        /\ k <= SliderMax
        /\ Run("slider", uploaded_file, analysis_option, k, FALSE, FALSE)

\* The user presses the clustering button.
PressButton ==
    /\ out.form
    /\ Run("button", uploaded_file, analysis_option, n_clusters, TRUE, FALSE)

Idle == [stage |-> "idle"]

Init ==
    /\ uploaded_file = NoFile
    /\ analysis_option = Options[1]
    /\ n_clusters = SliderDefault
    /\ session = <<>>
    /\ out = NoOutput @@ [reupload |-> FALSE, source_rows |-> <<>>]
    /\ calc = Idle

Next ==
    \/ Upload
    \/ RemoveFile
    \/ SelectOption
    \/ MoveSlider
    \/ PressButton

Spec == Init /\ [][Next]_vars

---------------------------------------------------------------------------
(* PureSpec: the data functions applied to every input of PureInputs.      *)

PureInit ==
    /\ uploaded_file = NoFile
    /\ analysis_option = Options[1]
    /\ n_clusters = SliderDefault
    /\ session = <<>>
    /\ out = NoOutput @@ [reupload |-> FALSE, source_rows |-> <<>>]
    /\ calc \in {[stage |-> "input", content |-> c] : c \in PureInputs}

\* table = load_data_from_csv(content)
PureLoad ==
    /\ calc.stage = "input"
    /\ calc' = [stage |-> "loaded", table |-> load_data_from_csv(calc.content)]
    /\ UNCHANGED <<uploaded_file, analysis_option, n_clusters, session, out>>

\* cleaned = clean_data(table)
PureClean ==
    /\ calc.stage = "loaded"
    /\ calc' = [stage |-> "cleaned", table |-> calc.table,
                cleaned |-> clean_data(calc.table)]
    /\ UNCHANGED <<uploaded_file, analysis_option, n_clusters, session, out>>

\* again = clean_data(cleaned)
PureCleanAgain ==
    /\ calc.stage = "cleaned"
    /\ calc.cleaned # Raised
    /\ calc' = [stage |-> "recleaned", table |-> calc.table, cleaned |-> calc.cleaned,
                again |-> clean_data(calc.cleaned)]
    /\ UNCHANGED <<uploaded_file, analysis_option, n_clusters, session, out>>

\* The report view (lines 292-308) on the cleaned table.
PureReport ==
    /\ calc.stage = "cleaned"
    /\ IsTable(calc.cleaned)
    /\ \E e \in BOOLEAN :
        LET r == ReportView([clean_data |-> calc.cleaned], NoOutput, e)
        IN  calc' = [stage |-> "reported", cleaned |-> calc.cleaned, view |-> r.out]
    /\ UNCHANGED <<uploaded_file, analysis_option, n_clusters, session, out>>

\* The clustering view (lines 242-277) on the cleaned table, the button
\* pressed with the slider at k.
PureCluster ==
    /\ calc.stage = "cleaned"
    /\ IsTable(calc.cleaned)
    /\ \E k \in SliderMin..MaxKTried :
        /\ k <= SliderMax
        /\ calc' = [stage |-> "clustered", cleaned |-> calc.cleaned, k |-> k,
                    view |-> ClusteringView([clean_data |-> calc.cleaned], NoOutput, k, TRUE)]
    /\ UNCHANGED <<uploaded_file, analysis_option, n_clusters, session, out>>

\* The button pressed a second time on the same table with the same k.
PureClusterAgain ==
    /\ calc.stage = "clustered"
    /\ calc' = [stage |-> "reclustered", cleaned |-> calc.cleaned, k |-> calc.k,
                view |-> calc.view,
                again |-> ClusteringView([clean_data |-> calc.cleaned], NoOutput, calc.k, TRUE)]
    /\ UNCHANGED <<uploaded_file, analysis_option, n_clusters, session, out>>

PureNext ==
    \/ PureLoad
    \/ PureClean
    \/ PureCleanAgain
    \/ PureReport
    \/ PureCluster
    \/ PureClusterAgain

PureSpec == PureInit /\ [][PureNext]_vars

---------------------------------------------------------------------------
(* Claims.                                                                 *)

\* The functions that read the cleaned table of the session.
CleanedReaders ==
    {"show_cleaned_distribution", "perform_regression_analysis",
     "perform_clustering", "generate_report"}

\* The three analyses.
Analyses == {"perform_regression_analysis", "perform_clustering", "generate_report"}

\* C1: whenever a run shows the cleaning view or runs an analysis, the
\* cleaned table it reads is clean_data of the raw table uploaded last,
\* never one derived from an earlier upload.
C1_CleanedFollowsUpload ==
    (out.ran \cap CleanedReaders # {}) =>
        session["clean_data"] = clean_data(session["raw_data"])

\* C2: a stored cleaned table that is not None has the score column, no
\* missing value in any column of any row, and every score in [1,5].
C2_CleanedTableInvariant ==
    (Has(session, "clean_data") /\ IsTable(session["clean_data"])) =>
        LET c == session["clean_data"]
        IN  /\ SCORE \in Cols(c)
            /\ \A i \in 1..Len(c.rows) :
                /\ \A col \in Cols(c) : c.rows[i][col] # NaN
                /\ SCORE \notin c.object
                /\ c.rows[i][SCORE] >= 1
                /\ c.rows[i][SCORE] <= 5

\* C2 witness: a run has cleaned a raw table, dropped a row of it and stored
\* a cleaned table that still has a row.
C2_Witness ==
    /\ "clean_data" \in out.ran
    /\ Has(session, "clean_data")
    /\ IsTable(session["clean_data"])
    /\ NRows(session["clean_data"]) >= 1
    /\ NRows(session["clean_data"]) < NRows(session["raw_data"])

\* C3: no analysis (regression, clustering, report) runs while the raw table
\* uploaded last lacks the satisfaction_score column.
C3_NoAnalysisOnInvalidUpload ==
    (out.ran \cap Analyses # {}) => SCORE \in Cols(session["raw_data"])

\* C4: a run that fails (an error or warning is shown, or an exception
\* escapes) leaves the session as it was before the interaction; the one
\* entry it may have written is raw_data, by the upload that started it.
C4_FailureKeepsSession ==
    [][out'.error => session' = LoadStep(session, uploaded_file').session]_vars

\* C5: for every table with the score column, cleaning the cleaned table
\* gives the cleaned table again, same rows in the same order.
C5_CleanIdempotent ==
    (calc.stage = "recleaned" /\ IsTable(calc.table) /\ SCORE \in Cols(calc.table)) =>
        calc.again = calc.cleaned

\* C5 witness: clean_data was applied twice, and its first application kept
\* a row and dropped a row.
C5_Witness ==
    /\ calc.stage = "recleaned"
    /\ IsTable(calc.table)
    /\ IsTable(calc.cleaned)
    /\ NRows(calc.cleaned) >= 1
    /\ NRows(calc.cleaned) < NRows(calc.table)

\* C6: once a result of clean_data is stored, no later run calls clean_data
\* again, whatever is uploaded: a second upload of the same content followed
\* by the cleaning view shows the stored result.
C6_NoRecomputation ==
    [][Has(session, "clean_data") => "clean_data" \notin out'.ran]_vars

\* C6 witness: the same content was uploaded again with the cleaning view
\* selected, and the view showed the stored table without calling clean_data.
C6_Witness ==
    /\ out.reupload
    /\ analysis_option = "cleaning"
    /\ out.result = "cleaning_shown"
    /\ "clean_data" \notin out.ran

\* C7: the cleaning view reports original = the row count of the table that
\* was cleaned, cleaned = the row count of the cleaned table and
\* removed = original - cleaned = the number of rows dropped, which is >= 0.
C7_RowCountDelta ==
    (out.metrics # <<>>) =>
        /\ out.metrics[1] = out.source_rows[1]
        /\ out.metrics[2] = NRows(session["clean_data"])
        /\ out.metrics[1] = out.metrics[2] + out.metrics[3]
        /\ out.metrics[3] >= 0

\* C8: cleaning that removes every row fails instead of storing a table
\* without rows, so no analysis runs on a cleaned table without rows.
C8_NoEmptyCleanedTable ==
    (Has(session, "clean_data") /\ IsTable(session["clean_data"])) =>
        NRows(session["clean_data"]) >= 1

\* C9: the passenger counts of the groups of a report add up to the number
\* of rows of the cleaned table the report was made from.
C9_CountsSumToRows ==
    (calc.stage = "reported" /\ calc.view.result = "report_shown") =>
        SumSeq([i \in 1..Len(calc.view.shown) |-> calc.view.shown[i].count])
            = NRows(calc.cleaned)

\* C9 witness: a report with two groups made from a cleaned table with rows.
C9_Witness ==
    /\ calc.stage = "reported"
    /\ calc.view.result = "report_shown"
    /\ Len(calc.view.shown) = 2
    /\ NRows(calc.cleaned) >= 2

\* means[i] >= means[i+1] for the fractions of a sequence.
NonIncreasing(means) ==
    \A i \in 1..(Len(means) - 1) : ~MeanGreater(means[i + 1], means[i])

\* C10: the report table shown and the csv export both list the groups in
\* non-increasing order of mean satisfaction.
C10_ReportOrderedByMean ==
    (calc.stage = "reported" /\ calc.view.result = "report_shown") =>
        /\ NonIncreasing([i \in 1..Len(calc.view.shown) |-> calc.view.shown[i].mean])
        /\ NonIncreasing([i \in 1..(Len(calc.view.csv) - 1) |-> calc.view.csv[i + 1][2]])

\* C11: whenever clustering is run with a cluster count outside [2,10] or
\* greater than the number of rows of the cleaned table, the run ends in an
\* error message of the application, not an escaped exception, and stores
\* no label assignment.
C11_InvalidClusterCountRejected ==
    ("perform_clustering" \in out.ran
        /\ (n_clusters \notin SliderMin..SliderMax
               \/ n_clusters > NRows(session["clean_data"]))) =>
        /\ out.error
        /\ out.result # "exception"
        /\ out.result # "clustering_done"

C13_AllMissingColumnsNamed ==
    (/\ Has(session, "raw_data")
     /\ Cols(session["raw_data"]) \cap {FLIGHT, SCORE} = {}
     /\ out.ran \cap {"show_initial_distribution", "clean_data"} # {}) =>
        /\ out.error
        /\ {FLIGHT, SCORE} \subseteq out.named

\* C14: when the feature selected for the regression has the same value in
\* every row of the cleaned table, the run ends in an error and shows no
\* regression coefficient.
C14_ConstantFeatureRejected ==
    ("perform_regression_analysis" \in out.ran /\ NRows(session["clean_data"]) >= 1) =>
        LET t == session["clean_data"]
            feature == SelectSeq(NumericCols(t), LAMBDA c : c # SCORE)[1]
        IN  (\A i \in 1..NRows(t) : t.rows[i][feature] = t.rows[1][feature]) =>
                /\ out.error
                /\ out.coef = <<>>

\* The radio entries of the three analyses.
AnalysisOptions == {"regression", "clustering", "report"}

\* C15: a run with regression, clustering or the report selected, whether
\* it succeeds or fails, leaves the raw table and the cleaned table of the
\* session as they were (raw_data is written only by the upload step of the
\* run); the one entry it may write is clusters, and only in a run whose
\* clustering succeeded.
C15_AnalysesPreserveTables ==
    [][analysis_option' \in AnalysisOptions =>
          LET s0 == LoadStep(session, uploaded_file').session
          IN  /\ \/ session' = s0
                 \/ /\ out'.result = "clustering_done"
                    /\ Has(session', "clusters")
                    /\ session' = Put(s0, "clusters", session'["clusters"])
              /\ (uploaded_file' = uploaded_file /\ Has(session, "raw_data")) =>
                    session'["raw_data"] = session["raw_data"]
              /\ Has(session, "clean_data") =>
                    /\ Has(session', "clean_data")
                    /\ session'["clean_data"] = session["clean_data"]
              /\ ~Has(session, "clean_data") => ~Has(session', "clean_data")]_vars

\* C15 witness: a clustering run failed with an exception in a session that
\* holds a raw table, a cleaned table and the clusters of an earlier run.
C15_Witness ==
    /\ analysis_option = "clustering"
    /\ out.result = "exception"
    /\ "perform_clustering" \in out.ran
    /\ Has(session, "clean_data")
    /\ Has(session, "clusters")

\* C16: a run computes a regression, a clustering or a report only if the
\* session already held a cleaned table that is not None and has the score
\* column; the clean_data entry is stored only by a run with the Cleaning
\* view selected; and a run with an analysis selected while no such table is
\* stored ends in a warning or an error and computes nothing.
C16_AnalysesAfterCleaning ==
    [][/\ (out'.ran \cap Analyses # {}) =>
              /\ Has(session, "clean_data")
              /\ IsTable(session["clean_data"])
              /\ SCORE \in Cols(session["clean_data"])
       /\ (~Has(session, "clean_data") /\ Has(session', "clean_data")) =>
              /\ analysis_option' = "cleaning"
              /\ "clean_data" \in out'.ran
       /\ (/\ analysis_option' \in AnalysisOptions
           /\ Has(session', "raw_data")
           /\ ~(Has(session', "clean_data") /\ IsTable(session'["clean_data"]))) =>
              /\ out'.error
              /\ out'.ran \cap Analyses = {}
              /\ out'.coef = <<>>
              /\ out'.shown = <<>>
              /\ ~Has(session', "clusters")]_vars

\* C16 witness: a regression was computed and its coefficient shown, on a
\* cleaned table with rows.
C16_Witness ==
    /\ out.result = "regression_shown"
    /\ out.coef # <<>>
    /\ Has(session, "clean_data")
    /\ NRows(session["clean_data"]) >= 1

\* C17: once the session holds a clean_data entry (a cleaned table, or None
\* after a cleaning that failed), no later run changes or removes it, also
\* not a run started by an upload or one that shows the Cleaning view.
C17_CleanDataWriteOnce ==
    [][Has(session, "clean_data") =>
          /\ Has(session', "clean_data")
          /\ session'["clean_data"] = session["clean_data"]]_vars

\* C17 witness: with the Cleaning view selected another file was uploaded,
\* and the entry stored earlier is still there although it is not what
\* clean_data gives for the new raw table.
C17_Witness ==
    /\ analysis_option = "cleaning"
    /\ out.load = "ok"
    /\ ~out.reupload
    /\ "clean_data" \notin out.ran
    /\ Has(session, "clean_data")
    /\ session["clean_data"] # clean_data(session["raw_data"])

\* C18: whenever the session holds a clusters entry, it holds a cleaned
\* table too and the entry has exactly one label per row of that table.
C18_ClustersMatchCleanedRows ==
    Has(session, "clusters") =>
        /\ Has(session, "clean_data")
        /\ IsTable(session["clean_data"])
        /\ DOMAIN session["clusters"].labels = 1..NRows(session["clean_data"])

\* C18 witness: after a clustering was stored, a file with another number of
\* rows was uploaded and the Cleaning view shown.
C18_Witness ==
    /\ Has(session, "clusters")
    /\ analysis_option = "cleaning"
    /\ out.load = "ok"
    /\ NRows(session["raw_data"]) # Len(session["clusters"].labels)
    /\ clean_data(session["raw_data"]) # session["clean_data"]

====
